---- MODULE Spec2Model ----
(***************************************************************************)
(* The replication-gated WireGuard tunnel controllers of the repository:   *)
(*   scripts/stop_wireguard.py   (Deactivation Controller)                 *)
(*   scripts/start_wireguard.py  (Activation Controller)                   *)
(* One run of each controller is modelled, both invoked by the scheduler   *)
(* with the same tunnel reference, their steps interleaved arbitrarily     *)
(* with each other and with the environment (replication jobs starting and *)
(* stopping, the tunnel being changed out-of-band).                        *)
(* The two stand-alone utilities are modelled as runs of their own:        *)
(*   scripts/check_replication.py  (replication health check)              *)
(*   scripts/export_config.py      (configuration export)                  *)
(*                                                                         *)
(* Time is counted in ticks of 1/TicksPerSecond second, so that the        *)
(* truncation int(time.time() - start_time) is visible.                    *)
(***************************************************************************)
EXTENDS Integers, Sequences, FiniteSets, TLC

\* ---------------------------------------------------------------- bounds
MaxTimeout == 3
MaxInterval == 2
MaxCallTicks == 1
MaxJobs == 1
TicksPerSecond == 2
MaxTasks == 2
MaxWindow == 2
MaxRetention == 1
MaxAgeDays == 1
MaxWriteSeconds == 1

\* ------------------------------------------------------- program constants
ExitSuccess == 0
ExitFailure == 1
ExitUsage == 2
NotExited == 0 - 1
DefaultTimeout == 60
DefaultInterval == 5
Never == 0 - 1
HourSeconds == 3600
MillisPerSecond == 1000
DefaultWindow == 24
DaySeconds == 86400
DefaultRetention == 5

WireguardDir == "/etc/wireguard"
Cwd == "/root"

\* A path is its directory, its stem and its suffix; NoPath is an option
\* that was not given on the command line.
NoPath == [dir |-> "", stem |-> "", suffix |-> ""]
NoInterface == ""

InterfaceArgs == {NoInterface, "wg0"}
ConfigArgs == {NoPath,
               [dir |-> "/mnt/user", stem |-> "wg1", suffix |-> ".conf"],
               [dir |-> ".", stem |-> "wg0", suffix |-> ".conf"]}
Timeouts == (0 - 1)..MaxTimeout
Intervals == (0 - 1)..MaxInterval

VARIABLES
    args,          \* the command line: interface, config, timeout, interval
    configOnDisk,  \* the resolved configuration file exists
    tunnelUp,      \* the WireGuard interface config.stem exists
    running,       \* replication jobs in state RUNNING
    sPc,           \* stop_wireguard.py: position of the run
    now,           \* stop_wireguard.py: time.time() - start_time, in ticks
    callTicks,     \* stop_wireguard.py: ticks spent inside the midclt queries
    sleepFor,      \* stop_wireguard.py: time_to_sleep, in seconds
    sCalls,        \* stop_wireguard.py: collaborator calls made, in order
    sPolls,        \* stop_wireguard.py: what each midclt query produced
    sProbe,        \* stop_wireguard.py: result of the last interface_is_up
    sActuator,     \* stop_wireguard.py: outcome of wg-quick down
    sInterrupt,    \* stop_wireguard.py: the call KeyboardInterrupt arrived in
    sDecision,     \* stop_wireguard.py: TunnelLifecycleDecision of the run
    sError,        \* stop_wireguard.py: why the run ended without decision
    sExit,         \* stop_wireguard.py: process exit status
    aPc,           \* start_wireguard.py: position of the run
    aCalls,        \* start_wireguard.py: collaborator calls made, in order
    aProbe,        \* start_wireguard.py: result of interface_exists
    aActuator,     \* start_wireguard.py: outcome of wg-quick up
    aDecision,     \* start_wireguard.py: TunnelLifecycleDecision of the run
    aError,        \* start_wireguard.py: why the run ended without decision
    aExit,         \* start_wireguard.py: process exit status
    pPc,           \* a second run of stop_wireguard.py: its position
    pDownAt,       \* Len(sCalls) when that run took the interface down
    hPc,           \* check_replication.py: position of the run
    hWindow,       \* check_replication.py: args.window, in hours
    hRaw,          \* check_replication.py: what midclt replication.query gave
    hTasks,        \* check_replication.py: result of get_replication_tasks
    hResult,       \* check_replication.py: result of check_all_replications
    hPings,        \* check_replication.py: statuses pushed to Uptime Kuma
    hExit,         \* check_replication.py: process exit status
    ePc,           \* export_config.py: position of the run
    eArgs,         \* export_config.py: retention, euid is root, destination
    eFiles,        \* export_config.py: the files of the destination directory
    eBefore,       \* export_config.py: the files there when the run started
    eWrite,        \* export_config.py: outcome of writing the archive
    eCalls,        \* export_config.py: "write" and "cleanup", in order
    eDeleted,      \* export_config.py: the files cleanup_old_exports unlinked
    eNow,          \* export_config.py: time.time(), in seconds
    eExit          \* export_config.py: process exit status

envVars == <<args, configOnDisk, running>>
stopVars == <<sPc, now, callTicks, sleepFor, sCalls, sPolls, sProbe, sActuator,
              sInterrupt, sDecision, sError, sExit>>
peerVars == <<pPc, pDownAt>>
startVars == <<aPc, aCalls, aProbe, aActuator, aDecision, aError, aExit>>
healthVars == <<hPc, hWindow, hRaw, hTasks, hResult, hPings, hExit>>
exportVars == <<ePc, eArgs, eFiles, eBefore, eWrite, eCalls, eDeleted, eNow,
                eExit>>
utilVars == <<healthVars, exportVars>>
vars == <<args, configOnDisk, tunnelUp, running, sPc, now, callTicks,
          sleepFor, sCalls,
          sPolls, sProbe, sActuator, sInterrupt, sDecision, sError, sExit,
          aPc, aCalls,
          aProbe, aActuator, aDecision, aError, aExit, pPc, pDownAt,
          hPc, hWindow, hRaw, hTasks, hResult, hPings, hExit,
          ePc, eArgs, eFiles, eBefore, eWrite, eCalls, eDeleted, eNow, eExit>>

\* ------------------------------------------------------------ helpers
Min(a, b) == IF a <= b THEN a ELSE b

Count(s, e) == Cardinality({i \in 1..Len(s) : s[i] = e})

\* int(x) of a non-negative duration given in ticks: whole seconds.
IntSeconds(ticks) == ticks \div TicksPerSecond

\* Path(...).resolve(): a relative path is anchored at the working directory.
Resolve(p) == IF p.dir = "." THEN [p EXCEPT !.dir = Cwd] ELSE p

\* config = Path(args.config if args.config else
\*               f"/etc/wireguard/{args.interface}.conf").resolve()
ConfigPath(a) ==
    Resolve(IF a.config # NoPath
            THEN a.config
            ELSE [dir |-> WireguardDir, stem |-> a.interface,
                  suffix |-> ".conf"])

\* ["wg", "show", config.stem]: the name the interface is checked by.
ProbeName(a) == ConfigPath(a).stem

\* ["wg-quick", "up" | "down", config]: the path handed to wg-quick.
ActuatorConfig(a) == ConfigPath(a)

\* if not args.interface and not args.config: parser.error(...)
NoTunnelRef(a) == a.interface = NoInterface /\ a.config = NoPath

\* ------------------------------------------------- external commands
\* `wg show <stem>`: status 0 only when the interface exists; a non-zero
\* status when it does not or on a transient error; or the tool cannot be
\* executed at all (OSError).
WgShowOutcomes(up) ==
    IF up THEN {"ok", "nonzero", "oserror"} ELSE {"nonzero", "oserror"}

\* `wg-quick down <config>`: succeeds only on an existing interface.
WgQuickDownOutcomes(up) ==
    IF up THEN {"ok", "nonzero", "oserror", "interrupt"}
          ELSE {"nonzero", "oserror", "interrupt"}

\* `wg-quick up <config>`: succeeds only when the interface does not exist.
WgQuickUpOutcomes(up) ==
    IF up THEN {"nonzero", "oserror"} ELSE {"ok", "nonzero", "oserror"}

\* `midclt call core.get_jobs <query>`: a JSON list with one record per
\* RUNNING replication job, or a failure, or some other output.
MidcltOutput(status, kind, size) ==
    [status |-> status, kind |-> kind, size |-> size]

MidcltOutcomes(n) ==
    {MidcltOutput("ok", "list", n)}
    \cup {MidcltOutput("ok", "object", k) : k \in 0..MaxJobs}
    \cup {MidcltOutput("ok", "null", 0), MidcltOutput("ok", "invalid", 0)}
    \cup {MidcltOutput(st, "none", 0) : st \in {"nonzero", "oserror", "interrupt"}}

\* ------------------------------------------ stop_wireguard.py: functions
\* get_zfs_replication_jobs: subprocess.run(check=True) raises on a failed
\* or interrupted command, json.loads raises on unparseable output; any
\* parsed value is returned as it is.
get_zfs_replication_jobs_raises(out) ==
    out.status # "ok" \/ out.kind = "invalid"

\* replication_running: len(jobs) raises TypeError on a value without a
\* length; otherwise the result is bool(jobs).
replication_running_raises(out) ==
    get_zfs_replication_jobs_raises(out) \/ out.kind \notin {"list", "object"}

\* Variant: a single running job is not noticed.
replication_running_more_than_one(out) == out.size > 1

replication_running(out) == out.size > 0

\* interface_is_up: True on status 0, False on CalledProcessError; any
\* other exception is not caught.
interface_is_up(outcome) == outcome = "ok"

interface_is_up_raises(outcome) == outcome \notin {"ok", "nonzero"}

\* while (time.time() - start_time) < args.timeout
\* Variant: the loop is entered once more when the timeout is just reached.
LoopCondition_inclusive(elapsed, timeout) ==
    elapsed <= timeout * TicksPerSecond

LoopCondition(elapsed, timeout) == elapsed < timeout * TicksPerSecond

\* idle_time = int(time.time() - start_time)
\* time_to_sleep = min(args.interval, args.timeout - idle_time)
time_to_sleep(interval, timeout, elapsed) ==
    Min(interval, timeout - IntSeconds(elapsed))

\* bring_down_interface: sys.exit(1) on CalledProcessError, otherwise main
\* goes on to sys.exit(0).
\* Variant: the status is 1 even after a successful wg-quick down.
bring_down_exit_always_fails(outcome) == ExitFailure

\* Variant: the failure of wg-quick down is only logged.
bring_down_exit_swallowed(outcome) == ExitSuccess

bring_down_exit(outcome) ==
    IF outcome = "ok" THEN ExitSuccess ELSE ExitFailure

\* if not interface_is_up(config): ... sys.exit(0)
\* Variant: the run goes on to the polling loop whatever the probe said.
InitialCheckExits_never(up) == FALSE

InitialCheckExits(up) == ~up

\* if interface_is_up(config): bring_down_interface(config)
\* Variant: wg-quick down is run whatever the second check said.
DecidingBringsDown_always(up) == TRUE

\* Variant: the test of the second check is negated.
DecidingBringsDown_inverted(up) == ~up

DecidingBringsDown(up) == up

\* except KeyboardInterrupt: ... sys.exit(0)
\* Variant: an interrupted run reports a failure.
InterruptExit_failure == ExitFailure

InterruptExit == ExitSuccess

\* The run ends: sys.exit(code), or an exception leaves main.
\* Variant: after a failed wg-quick down the run checks and tries again.
StopEnds_retry(decision, error, code) ==
    /\ sPc' = IF decision = "DeactivationFailed" THEN "Deciding" ELSE "Done"
    /\ sDecision' = decision
    /\ sError' = error
    /\ sExit' = code

StopEnds(decision, error, code) ==
    /\ sPc' = "Done"
    /\ sDecision' = decision
    /\ sError' = error
    /\ sExit' = code

\* ------------------------------------------- stop_wireguard.py: main
\* parse_args and the check that a tunnel reference was given.
StopArgs ==
    /\ sPc = "Args"
    /\ IF NoTunnelRef(args)
       THEN StopEnds("None", "ConfigurationError", ExitUsage)
       ELSE /\ sPc' = "InitialCheck"
            /\ UNCHANGED <<sDecision, sError, sExit>>
    /\ UNCHANGED <<now, callTicks, sleepFor, sCalls, sPolls, sProbe,
                   sActuator, sInterrupt>>
    /\ UNCHANGED <<envVars, tunnelUp, startVars, peerVars>>
    /\ UNCHANGED utilVars

\* Initial interface check; start_time is taken when the interface is up.
StopInitialCheck ==
    /\ sPc = "InitialCheck"
    /\ \E o \in WgShowOutcomes(tunnelUp) :
          /\ sCalls' = Append(sCalls, "probe")
          /\ IF interface_is_up_raises(o)
             THEN /\ sProbe' = "raised"
                  /\ StopEnds("None", "ProbeError", ExitFailure)
             ELSE /\ sProbe' = IF interface_is_up(o) THEN "active"
                                                     ELSE "inactive"
                  /\ IF InitialCheckExits(interface_is_up(o))
                     THEN StopEnds("AlreadyDown", "None", ExitSuccess)
                     ELSE /\ sPc' = "LoopGuard"
                          /\ UNCHANGED <<sDecision, sError, sExit>>
    /\ now' = 0
    /\ UNCHANGED <<callTicks, sleepFor, sPolls, sActuator, sInterrupt>>
    /\ UNCHANGED <<envVars, tunnelUp, startVars, peerVars>>
    /\ UNCHANGED utilVars

\* The test of the while loop.
StopLoopGuard ==
    /\ sPc = "LoopGuard"
    /\ sPc' = IF LoopCondition(now, args.timeout) THEN "Poll" ELSE "Deciding"
    /\ UNCHANGED <<now, callTicks, sleepFor, sCalls, sPolls, sProbe,
                   sActuator, sInterrupt, sDecision, sError, sExit>>
    /\ UNCHANGED <<envVars, tunnelUp, startVars, peerVars>>
    /\ UNCHANGED utilVars

\* One iteration up to the sleep: the query, which takes d ticks, then
\* either the exit on activity or the computation of time_to_sleep.
StopPoll ==
    /\ sPc = "Poll"
    /\ \E d \in 0..MaxCallTicks, out \in MidcltOutcomes(running) :
          /\ sCalls' = Append(sCalls, "poll")
          /\ sPolls' = Append(sPolls, out)
          /\ now' = now + d
          /\ callTicks' = callTicks + d
          /\ sInterrupt' = IF out.status = "interrupt" THEN "poll"
                                                        ELSE sInterrupt
          /\ IF out.status = "interrupt"
             THEN /\ StopEnds("None", "Interrupted", InterruptExit)
                  /\ UNCHANGED sleepFor
             ELSE IF replication_running_raises(out)
             THEN /\ StopEnds("None", "OracleQueryError", ExitFailure)
                  /\ UNCHANGED sleepFor
             ELSE IF replication_running(out)
             THEN /\ StopEnds("KeptUp", "None", ExitSuccess)
                  /\ UNCHANGED sleepFor
             ELSE /\ sleepFor' = time_to_sleep(args.interval, args.timeout,
                                               now + d)
                  /\ sPc' = IF sleepFor' > 0 THEN "Sleep" ELSE "Deciding"
                  /\ UNCHANGED <<sDecision, sError, sExit>>
    /\ UNCHANGED <<sProbe, sActuator>>
    /\ UNCHANGED <<envVars, tunnelUp, startVars, peerVars>>
    /\ UNCHANGED utilVars

\* time.sleep(time_to_sleep): it lasts the whole time asked for, or it is
\* cut short by KeyboardInterrupt.
StopSleep ==
    /\ sPc = "Sleep"
    /\ \E t \in 0..(sleepFor * TicksPerSecond) :
          /\ sCalls' = Append(sCalls, "sleep")
          /\ now' = now + t
          /\ IF t < sleepFor * TicksPerSecond
             THEN /\ sInterrupt' = "sleep"
                  /\ StopEnds("None", "Interrupted", InterruptExit)
             ELSE /\ sPc' = "LoopGuard"
                  /\ UNCHANGED <<sInterrupt, sDecision, sError, sExit>>
    /\ UNCHANGED <<callTicks, sleepFor, sPolls, sProbe, sActuator>>
    /\ UNCHANGED <<envVars, tunnelUp, startVars, peerVars>>
    /\ UNCHANGED utilVars

\* After the loop: the interface is checked again.
StopDeciding ==
    /\ sPc = "Deciding"
    /\ \E o \in WgShowOutcomes(tunnelUp) \cup {"interrupt"} :
          /\ sCalls' = Append(sCalls, "probe")
          /\ sInterrupt' = IF o = "interrupt" THEN "probe" ELSE sInterrupt
          /\ IF o = "interrupt"
             THEN /\ sProbe' = "raised"
                  /\ StopEnds("None", "Interrupted", InterruptExit)
             ELSE IF interface_is_up_raises(o)
             THEN /\ sProbe' = "raised"
                  /\ StopEnds("None", "ProbeError", ExitFailure)
             ELSE /\ sProbe' = IF interface_is_up(o) THEN "active"
                                                     ELSE "inactive"
                  /\ IF DecidingBringsDown(interface_is_up(o))
                     THEN /\ sPc' = "BringDown"
                          /\ UNCHANGED <<sDecision, sError, sExit>>
                     ELSE StopEnds("AlreadyDown", "None", ExitSuccess)
    /\ UNCHANGED <<now, callTicks, sleepFor, sPolls, sActuator>>
    /\ UNCHANGED <<envVars, tunnelUp, startVars, peerVars>>
    /\ UNCHANGED utilVars

\* bring_down_interface(config) and the sys.exit(0) that follows it.
StopBringDown ==
    /\ sPc = "BringDown"
    /\ \E o \in WgQuickDownOutcomes(tunnelUp) :
          /\ sCalls' = Append(sCalls, "deactivate")
          /\ sActuator' = o
          /\ sInterrupt' = IF o = "interrupt" THEN "deactivate"
                                              ELSE sInterrupt
          /\ IF o = "interrupt"
             THEN /\ StopEnds("None", "Interrupted", InterruptExit)
                  /\ tunnelUp' \in {tunnelUp, FALSE}
             ELSE IF o = "oserror"
             THEN /\ StopEnds("None", "ActuatorError", ExitFailure)
                  /\ UNCHANGED tunnelUp
             ELSE /\ StopEnds(IF o = "ok" THEN "TornDown"
                                          ELSE "DeactivationFailed",
                              "None", bring_down_exit(o))
                  /\ tunnelUp' = IF o = "ok" THEN FALSE ELSE tunnelUp
    /\ UNCHANGED <<now, callTicks, sleepFor, sPolls, sProbe>>
    /\ UNCHANGED <<envVars, startVars, peerVars>>
    /\ UNCHANGED utilVars

\* ----------------------------------------- start_wireguard.py: functions
\* interface_exists: True on status 0, False on CalledProcessError; any
\* other exception is not caught.
interface_exists(outcome) == outcome = "ok"

interface_exists_raises(outcome) == outcome \notin {"ok", "nonzero"}

\* if not interface_exists(config): bring_up_interface(config)
\* Variant: wg-quick up is run whatever the probe said.
NeedsBringUp_always(up) == TRUE

NeedsBringUp(up) == ~up

\* bring_up_interface: sys.exit(1) on CalledProcessError; otherwise main
\* falls through to the DONE banner and the process ends with status 0.
bring_up_exit(outcome) ==
    IF outcome = "ok" THEN ExitSuccess ELSE ExitFailure

\* The run ends: at "Done" after the DONE banner, at "Failed" before it.
StartEnds(pc, decision, error, code) ==
    /\ aPc' = pc
    /\ aDecision' = decision
    /\ aError' = error
    /\ aExit' = code

\* ------------------------------------------ start_wireguard.py: main
\* parse_args, the check that a tunnel reference was given, and the check
\* that the configuration file exists.
StartArgs ==
    /\ aPc = "Args"
    /\ IF NoTunnelRef(args)
       THEN StartEnds("Failed", "None", "ConfigurationError", ExitUsage)
       ELSE IF ~configOnDisk
       THEN StartEnds("Failed", "None", "ConfigMissing", ExitFailure)
       ELSE /\ aPc' = "CheckingActive"
            /\ UNCHANGED <<aDecision, aError, aExit>>
    /\ UNCHANGED <<aCalls, aProbe, aActuator>>
    /\ UNCHANGED <<envVars, tunnelUp, stopVars, peerVars>>
    /\ UNCHANGED utilVars

\* interface_exists(config), and the DONE banner when it is already up.
StartCheckingActive ==
    /\ aPc = "CheckingActive"
    /\ \E o \in WgShowOutcomes(tunnelUp) :
          /\ aCalls' = Append(aCalls, "probe")
          /\ IF interface_exists_raises(o)
             THEN /\ aProbe' = "raised"
                  /\ StartEnds("Failed", "None", "ProbeError", ExitFailure)
             ELSE /\ aProbe' = IF interface_exists(o) THEN "active"
                                                      ELSE "inactive"
                  /\ IF NeedsBringUp(interface_exists(o))
                     THEN /\ aPc' = "BringUp"
                          /\ UNCHANGED <<aDecision, aError, aExit>>
                     ELSE StartEnds("Done", "AlreadyUp", "None",
                                    ExitSuccess)
    /\ UNCHANGED aActuator
    /\ UNCHANGED <<envVars, tunnelUp, stopVars, peerVars>>
    /\ UNCHANGED utilVars

\* bring_up_interface(config), and the DONE banner when it returns.
StartBringUp ==
    /\ aPc = "BringUp"
    /\ \E o \in WgQuickUpOutcomes(tunnelUp) :
          /\ aCalls' = Append(aCalls, "activate")
          /\ aActuator' = o
          /\ IF o = "oserror"
             THEN /\ StartEnds("Failed", "None", "ActuatorError", ExitFailure)
                  /\ UNCHANGED tunnelUp
             ELSE IF o = "ok"
             THEN /\ StartEnds("Done", "Activated", "None", bring_up_exit(o))
                  /\ tunnelUp' = TRUE
             ELSE /\ StartEnds("Failed", "ActivationFailed", "None",
                               bring_up_exit(o))
                  /\ UNCHANGED tunnelUp
    /\ UNCHANGED aProbe
    /\ UNCHANGED <<envVars, stopVars, peerVars>>
    /\ UNCHANGED utilVars

\* --------------------------------------------------------- environment
\* The replication system starts or finishes jobs on its own.
JobChange ==
    /\ \E n \in 0..MaxJobs : n # running /\ running' = n
    /\ UNCHANGED <<args, configOnDisk, tunnelUp, stopVars, startVars, peerVars>>
    /\ UNCHANGED utilVars

\* Another actor brings the interface up or down.
TunnelChange ==
    /\ tunnelUp' = ~tunnelUp
    /\ UNCHANGED <<envVars, stopVars, startVars, peerVars>>
    /\ UNCHANGED utilVars

\* ------------------------------------- check_replication.py: the data
\* None, for the optional str fields and for the optional int field of a
\* ReplicationTask.
None == "None"
NoDatetime == 0 - 1

\* datetime.now() of the run, in seconds.
HealthNow == (MaxWindow + 2) * HourSeconds

Windows == 1..MaxWindow

\* "$date" of the last run, in milliseconds: one hour ago, and one second
\* more than MaxWindow hours ago.
LastRunTimes ==
    {(HealthNow - HourSeconds) * MillisPerSecond,
     (HealthNow - MaxWindow * HourSeconds - 1) * MillisPerSecond}

\* One element of the JSON list printed by `midclt call replication.query`:
\* whether it has "id" and "name", its "enabled", and its "state" block -
\* null for a task that never ran, else a dict with "state", "datetime"
\* and "error".
RawTask(keys, enabled, block, state, datetime, error) ==
    [keys |-> keys, enabled |-> enabled, block |-> block, state |-> state,
     datetime |-> datetime, error |-> error]

RawTasks ==
    {RawTask(FALSE, TRUE, "null", None, NoDatetime, None)}
    \cup {RawTask(TRUE, en, "null", None, NoDatetime, None) : en \in BOOLEAN}
    \cup {RawTask(TRUE, en, "dict", st, dt, er) :
             en \in BOOLEAN, st \in {"FINISHED", "ERROR"},
             dt \in LastRunTimes \cup {NoDatetime},
             er \in {None, "failed"}}

RawLists == UNION {[1..n -> RawTasks] : n \in 0..MaxTasks}

\* `midclt call replication.query`: a JSON list, some other JSON value,
\* output that is not JSON, a non-zero status, or the tool cannot be run.
ReplicationQueryOutcomes ==
    {[status |-> "ok", kind |-> "list", items |-> l] : l \in RawLists}
    \cup {[status |-> "ok", kind |-> k, items |-> <<>>] :
             k \in {"object", "invalid"}}
    \cup {[status |-> st, kind |-> "none", items |-> <<>>] :
             st \in {"nonzero", "oserror"}}

\* -------------------------------- check_replication.py: functions
\* ReplicationTask.from_midclt: state_block = data.get("state") or {}.
from_midclt(data) ==
    [enabled |-> data.enabled,
     state |-> IF data.block = "dict" THEN data.state ELSE None,
     last_datetime |-> IF data.block = "dict" THEN data.datetime
                                              ELSE NoDatetime,
     error |-> IF data.block = "dict" THEN data.error ELSE None]

\* `not x` for an Optional[str] and for an Optional[int].
FalsyStr(x) == x = None \/ x = ""

FalsyInt(x) == x = NoDatetime \/ x = 0

\* ReplicationTask.ok
ok(t) == t.state = "FINISHED" /\ FalsyStr(t.error)

\* ReplicationTask.is_within_window
is_within_window(t, window) ==
    IF FalsyInt(t.last_datetime) \/ ~ok(t)
    THEN FALSE
    ELSE HealthNow - (t.last_datetime \div MillisPerSecond)
             <= window * HourSeconds

\* get_replication_tasks: only CalledProcessError is caught around
\* subprocess.run.
get_replication_tasks_raises(out) == out.status = "oserror"

RECURSIVE FromRawTasks(_)
FromRawTasks(items) ==
    IF items = <<>> THEN <<>>
    ELSE IF Head(items).keys
    THEN <<from_midclt(Head(items))>> \o FromRawTasks(Tail(items))
    ELSE FromRawTasks(Tail(items))

\* get_replication_tasks: [] on a failed command, on unparseable output
\* and on a value that is no list; elements without "id" or "name" are
\* skipped.
get_replication_tasks(out) ==
    IF out.status # "ok" \/ out.kind # "list"
    THEN <<>>
    ELSE FromRawTasks(out.items)

IsEnabled(t) == t.enabled

enabled_tasks(tasks) == SelectSeq(tasks, IsEnabled)

\* reason = t.error or f"state={t.state} (Last run:
\*          {datetime.fromtimestamp(t.last_datetime/1000)})":
\* None / 1000 raises TypeError.
reason_raises(t) == FalsyStr(t.error) /\ t.last_datetime = NoDatetime

\* check_all_replications: an exception leaves it when the reason of an
\* outdated task cannot be printed.
check_all_replications_raises(tasks, window) ==
    \E i \in 1..Len(tasks) :
        /\ tasks[i].enabled
        /\ ~is_within_window(tasks[i], window)
        /\ reason_raises(tasks[i])

check_all_replications(tasks, window) ==
    \/ enabled_tasks(tasks) = <<>>
    \/ \A i \in 1..Len(tasks) :
          tasks[i].enabled => is_within_window(tasks[i], window)

\* notify_uptime_kuma: status = "up" if up else "down"
PingStatus(up) == IF up THEN "up" ELSE "down"

\* ----------------------------------- check_replication.py: main
\* get_replication_tasks(), the first statement of check_all_replications.
HealthQuery ==
    /\ hPc = "Query"
    /\ \E out \in ReplicationQueryOutcomes :
          /\ hRaw' = out
          /\ IF get_replication_tasks_raises(out)
             THEN /\ hPc' = "Done"
                  /\ hResult' = "query raised"
                  /\ hExit' = ExitFailure
                  /\ UNCHANGED hTasks
             ELSE /\ hPc' = "Check"
                  /\ hTasks' = get_replication_tasks(out)
                  /\ UNCHANGED <<hResult, hExit>>
    /\ UNCHANGED <<hWindow, hPings>>
    /\ UNCHANGED <<envVars, tunnelUp, stopVars, startVars, peerVars,
                   exportVars>>

\* The rest of check_all_replications.
HealthCheck ==
    /\ hPc = "Check"
    /\ IF check_all_replications_raises(hTasks, hWindow)
       THEN /\ hPc' = "Done"
            /\ hResult' = "raised"
            /\ hExit' = ExitFailure
       ELSE /\ hPc' = "Notify"
            /\ hResult' = PingStatus(check_all_replications(hTasks, hWindow))
            /\ UNCHANGED hExit
    /\ UNCHANGED <<hWindow, hRaw, hTasks, hPings>>
    /\ UNCHANGED <<envVars, tunnelUp, stopVars, startVars, peerVars,
                   exportVars>>

\* notify_uptime_kuma(...), whose result is not looked at, and sys.exit.
HealthNotify ==
    /\ hPc = "Notify"
    /\ hPings' = Append(hPings, hResult)
    /\ hExit' = IF hResult = "up" THEN ExitSuccess ELSE ExitFailure
    /\ hPc' = "Done"
    /\ UNCHANGED <<hWindow, hRaw, hTasks, hResult>>
    /\ UNCHANGED <<envVars, tunnelUp, stopVars, startVars, peerVars,
                   exportVars>>

\* ------------------------------------------ export_config.py: the data
\* A file name is its stem, split at the dashes, and what follows the stem.
Hostname == <<"nas">>
Version == "25.04"

\* f"config-export-{hostname}-{version}-{timestamp}.tar"
ExportFilename(hostname, version, timestamp) ==
    [stem |-> <<"config", "export">> \o hostname \o <<version, timestamp>>,
     suffix |-> ".tar"]

\* glob.glob(destination / f"config-export-{hostname}-*.tar"): the name
\* starts with "config-export-<hostname>-" and ends with ".tar".
GlobMatches(name, hostname) ==
    LET prefix == <<"config", "export">> \o hostname
    IN  /\ name.suffix = ".tar"
        /\ Len(name.stem) > Len(prefix)
        /\ SubSeq(name.stem, 1, Len(prefix)) = prefix

\* time.time() when the run starts, in seconds.
ExportStart == (MaxAgeDays + 1) * DaySeconds

\* The name of the archive this run writes.
target_path == ExportFilename(Hostname, Version, "20250102010000")

\* Names found in the destination: an earlier export of this host, one of
\* the host nas-2, one of the host backup, and a compressed copy.
OldNames ==
    {ExportFilename(Hostname, Version, "20250101010000"),
     ExportFilename(<<"nas", "2">>, Version, "20250101010000"),
     ExportFilename(<<"backup">>, Version, "20250101010000"),
     [stem |-> ExportFilename(Hostname, Version, "20250101010000").stem,
      suffix |-> ".tar.gz"]}

MTimes ==
    {ExportStart - k * DaySeconds - j : k \in 0..MaxAgeDays, j \in 0..1}

\* The possible contents of the destination directory.
Directories ==
    UNION {{{[name |-> n, mtime |-> f[n]] : n \in N} : f \in [N -> MTimes]} :
           N \in SUBSET OldNames}

Retentions == (0 - 1)..MaxRetention

\* ------------------------------------- export_config.py: functions
\* cutoff = time.time() - (days * 86400)
Cutoff(t, days) == t - days * DaySeconds

\* cleanup_old_exports: the files that are unlinked unless unlink fails.
Expired(files, hostname, cutoff) ==
    {f \in files : GlobMatches(f.name, hostname) /\ f.mtime < cutoff}

\* run_export: cleanup_old_exports is called in the try block after the
\* with block, so only when no exception left the with block.
\* Variant: cleanup_old_exports is called in a finally clause.
CleanupFollows_finally(outcome) == TRUE

CleanupFollows(outcome) == outcome = "ok"

\* The run ends: sys.exit(code), or main returns.
ExportEnds(code) ==
    /\ ePc' = "Done"
    /\ eExit' = code

\* ---------------------------------------- export_config.py: main
\* parse_args, check_root and the check of the destination.
ExportMain ==
    /\ ePc = "Main"
    /\ IF ~eArgs.root \/ ~eArgs.destIsDir
       THEN ExportEnds(ExitFailure)
       ELSE /\ ePc' = "Write"
            /\ UNCHANGED eExit
    /\ UNCHANGED <<eArgs, eFiles, eBefore, eWrite, eCalls, eDeleted, eNow>>
    /\ UNCHANGED <<envVars, tunnelUp, stopVars, startVars, peerVars,
                   healthVars>>

\* run_export up to the end of the with block: tarfile.open fails and no
\* file is made, or tar.add fails and a partial file is left, or the
\* archive is written; the writing ends d seconds after it began.
ExportWrite ==
    /\ ePc = "Write"
    /\ \E o \in {"ok", "open failed", "add failed"},
          d \in 0..MaxWriteSeconds :
          \E m \in 0..d :
              /\ eCalls' = Append(eCalls, "write")
              /\ eWrite' = o
              /\ eNow' = eNow + d
              /\ eFiles' = IF o = "open failed"
                           THEN eFiles
                           ELSE eFiles \cup {[name |-> target_path,
                                              mtime |-> eNow + m]}
              /\ IF CleanupFollows(o)
                 THEN /\ ePc' = "Cleanup"
                      /\ UNCHANGED eExit
                 ELSE ExportEnds(ExitFailure)
    /\ UNCHANGED <<eArgs, eBefore, eDeleted>>
    /\ UNCHANGED <<envVars, tunnelUp, stopVars, startVars, peerVars,
                   healthVars>>

\* cleanup_old_exports and the return of main: each expired file is
\* unlinked, or its unlink fails with OSError and it stays; an exception
\* of stat() leaves the loop and ends the run with status 1.
ExportCleanup ==
    /\ ePc = "Cleanup"
    /\ \E D \in SUBSET Expired(eFiles, Hostname,
                               Cutoff(eNow, eArgs.retention)),
          o \in {"ok", "stat failed"} :
          /\ o = "stat failed" =>
                \E f \in eFiles : GlobMatches(f.name, Hostname)
          /\ eCalls' = Append(eCalls, "cleanup")
          /\ eFiles' = eFiles \ D
          /\ eDeleted' = D
          /\ ExportEnds(IF o = "ok" THEN ExitSuccess ELSE ExitFailure)
    /\ UNCHANGED <<eArgs, eBefore, eWrite, eNow>>
    /\ UNCHANGED <<envVars, tunnelUp, stopVars, startVars, peerVars,
                   healthVars>>

\* --------------------------------------------------------- specification
\* Both runs are about to parse their command line.
InitStopRun ==
    /\ sPc = "Args"
    /\ now = 0
    /\ callTicks = 0
    /\ sleepFor = 0
    /\ sCalls = <<>>
    /\ sPolls = <<>>
    /\ sProbe = "none"
    /\ sActuator = "none"
    /\ sInterrupt = "none"
    /\ sDecision = "None"
    /\ sError = "None"
    /\ sExit = NotExited

InitStartRun ==
    /\ aPc = "Args"
    /\ aCalls = <<>>
    /\ aProbe = "none"
    /\ aActuator = "none"
    /\ aDecision = "None"
    /\ aError = "None"
    /\ aExit = NotExited

\* The utilities are not run.
InitHealthIdle ==
    /\ hPc = "Idle"
    /\ hWindow = DefaultWindow
    /\ hRaw = [status |-> "none", kind |-> "none", items |-> <<>>]
    /\ hTasks = <<>>
    /\ hResult = "none"
    /\ hPings = <<>>
    /\ hExit = NotExited

InitExportIdle ==
    /\ ePc = "Idle"
    /\ eArgs = [retention |-> DefaultRetention, root |-> TRUE,
                destIsDir |-> TRUE]
    /\ eFiles = {}
    /\ eBefore = {}
    /\ eWrite = "none"
    /\ eCalls = <<>>
    /\ eDeleted = {}
    /\ eNow = ExportStart
    /\ eExit = NotExited

Init ==
    /\ args \in [interface : InterfaceArgs, config : ConfigArgs,
                 timeout : Timeouts, interval : Intervals]
    /\ configOnDisk \in BOOLEAN
    /\ tunnelUp \in BOOLEAN
    /\ running \in 0..MaxJobs
    /\ InitStopRun
    /\ InitStartRun
    /\ pPc = "Idle"
    /\ pDownAt = Never
    /\ InitHealthIdle
    /\ InitExportIdle

Next ==
    \/ StopArgs
    \/ StopInitialCheck
    \/ StopLoopGuard
    \/ StopPoll
    \/ StopSleep
    \/ StopDeciding
    \/ StopBringDown
    \/ StartArgs
    \/ StartCheckingActive
    \/ StartBringUp
    \/ JobChange
    \/ TunnelChange

Spec == Init /\ [][Next]_vars

\* ------------------------------------------- the grace-period scenarios
\* stop_wireguard.py alone on an interface that is up, with positive
\* timeout and interval - the defaults 60 and 5 among them - and a
\* middleware that answers every query with a list of the RUNNING jobs.
GraceCases ==
    {<<DefaultTimeout, DefaultInterval>>}
    \cup ((1..MaxTimeout) \X (1..MaxInterval))

InitGrace ==
    /\ args \in {[interface |-> "wg0", config |-> NoPath,
                  timeout |-> c[1], interval |-> c[2]] : c \in GraceCases}
    /\ configOnDisk = TRUE
    /\ tunnelUp = TRUE
    /\ running \in 0..MaxJobs
    /\ InitStopRun
    /\ InitStartRun
    /\ pPc = "Idle"
    /\ pDownAt = Never
    /\ InitHealthIdle
    /\ InitExportIdle

GracePoll ==
    /\ StopPoll
    /\ sPolls'[Len(sPolls')].status = "ok"
    /\ sPolls'[Len(sPolls')].kind = "list"

NextGrace ==
    \/ StopArgs
    \/ StopInitialCheck
    \/ StopLoopGuard
    \/ GracePoll
    \/ StopSleep
    \/ StopDeciding
    \/ StopBringDown
    \/ JobChange
    \/ TunnelChange

SpecGrace == InitGrace /\ [][NextGrace]_vars

\* ------------------------------------------------- overlapping runs
\* A second run of stop_wireguard.py on the same interface, from the end
\* of its polling loop on: the second check, then wg-quick down.
PeerDeciding ==
    /\ pPc = "Deciding"
    /\ \E o \in WgShowOutcomes(tunnelUp) :
          pPc' = IF /\ ~interface_is_up_raises(o)
                    /\ DecidingBringsDown(interface_is_up(o))
                 THEN "BringDown"
                 ELSE "Done"
    /\ UNCHANGED <<envVars, tunnelUp, stopVars, startVars, pDownAt>>
    /\ UNCHANGED utilVars

PeerBringDown ==
    /\ pPc = "BringDown"
    /\ \E o \in WgQuickDownOutcomes(tunnelUp) :
          IF o = "ok" THEN tunnelUp' = FALSE
          ELSE IF o = "interrupt" THEN tunnelUp' \in {tunnelUp, FALSE}
          ELSE UNCHANGED tunnelUp
    /\ pPc' = "Done"
    /\ pDownAt' = IF tunnelUp /\ ~tunnelUp' THEN Len(sCalls) ELSE pDownAt
    /\ UNCHANGED <<envVars, stopVars, startVars>>
    /\ UNCHANGED utilVars

\* The runs the scheduler started are the only actors on the interface.
InitOverlap ==
    /\ args \in {[interface |-> "wg0", config |-> NoPath,
                  timeout |-> t, interval |-> 1] : t \in 0..1}
    /\ configOnDisk = TRUE
    /\ tunnelUp \in BOOLEAN
    /\ running \in 0..MaxJobs
    /\ InitStopRun
    /\ InitStartRun
    /\ pPc = "Deciding"
    /\ pDownAt = Never
    /\ InitHealthIdle
    /\ InitExportIdle

NextOverlap ==
    \/ StopArgs
    \/ StopInitialCheck
    \/ StopLoopGuard
    \/ StopPoll
    \/ StopSleep
    \/ StopDeciding
    \/ StopBringDown
    \/ StartArgs
    \/ StartCheckingActive
    \/ StartBringUp
    \/ PeerDeciding
    \/ PeerBringDown
    \/ JobChange

SpecOverlap == InitOverlap /\ [][NextOverlap]_vars

\* --------------------------------------------------- runs that go on
\* stop_wireguard.py under a scheduler that lets it run: every call it
\* makes - wg show, midclt, time.sleep, wg-quick down - comes back, with
\* whatever outcome, and the statement after it is executed.
StopRun ==
    \/ StopArgs
    \/ StopInitialCheck
    \/ StopLoopGuard
    \/ StopPoll
    \/ StopSleep
    \/ StopDeciding
    \/ StopBringDown

NextProgress ==
    \/ StopArgs
    \/ StopInitialCheck
    \/ StopLoopGuard
    \/ StopPoll
    \/ StopSleep
    \/ StopDeciding
    \/ StopBringDown
    \/ JobChange
    \/ TunnelChange

SpecProgress == Init /\ [][NextProgress]_vars /\ WF_vars(StopRun)

\* ------------------------------------------ the utilities on their own
\* The controllers are about to start and do not run.
InitControllersIdle ==
    /\ args = [interface |-> "wg0", config |-> NoPath,
               timeout |-> DefaultTimeout, interval |-> DefaultInterval]
    /\ configOnDisk = TRUE
    /\ tunnelUp = TRUE
    /\ running = 0
    /\ InitStopRun
    /\ InitStartRun
    /\ pPc = "Idle"
    /\ pDownAt = Never

\* One run of check_replication.py, for every --window of 1..MaxWindow
\* hours.
InitHealth ==
    /\ InitControllersIdle
    /\ InitExportIdle
    /\ hPc = "Query"
    /\ hWindow \in Windows
    /\ hRaw = [status |-> "none", kind |-> "none", items |-> <<>>]
    /\ hTasks = <<>>
    /\ hResult = "none"
    /\ hPings = <<>>
    /\ hExit = NotExited

NextHealth ==
    \/ HealthQuery
    \/ HealthCheck
    \/ HealthNotify

SpecHealth == InitHealth /\ [][NextHealth]_vars

\* One run of export_config.py, for every content of the destination
\* directory; a destination that is no directory holds no files.
InitExport ==
    /\ InitControllersIdle
    /\ InitHealthIdle
    /\ ePc = "Main"
    /\ eArgs \in [retention : Retentions, root : BOOLEAN,
                  destIsDir : BOOLEAN]
    /\ eFiles \in Directories
    /\ ~eArgs.destIsDir => eFiles = {}
    /\ eBefore = eFiles
    /\ eWrite = "none"
    /\ eCalls = <<>>
    /\ eDeleted = {}
    /\ eNow = ExportStart
    /\ eExit = NotExited

NextExport ==
    \/ ExportMain
    \/ ExportWrite
    \/ ExportCleanup

SpecExport == InitExport /\ [][NextExport]_vars

TypeOK ==
    /\ sPc \in {"Args", "InitialCheck", "LoopGuard", "Poll", "Sleep",
                "Deciding", "BringDown", "Done"}
    /\ aPc \in {"Args", "CheckingActive", "BringUp", "Done", "Failed"}
    /\ sExit \in {NotExited, ExitSuccess, ExitFailure, ExitUsage}
    /\ aExit \in {NotExited, ExitSuccess, ExitFailure, ExitUsage}
    /\ now >= 0

\* ================================================================ claims
Last(s) == s[Len(s)]

Polls == Count(sCalls, "poll")
Sleeps == Count(sCalls, "sleep")
StopProbes == Count(sCalls, "probe")
Deactivations == Count(sCalls, "deactivate")
Activations == Count(aCalls, "activate")

\* The query answered with a well-formed list of n job records.
Reported(out, n) == out.status = "ok" /\ out.kind = "list" /\ out.size = n

\* The query answered with a well-formed list that holds at least one job.
ReportedActivity(out) ==
    out.status = "ok" /\ out.kind = "list" /\ out.size > 0

\* The query failed, or its output is not a list of job records.
QueryFailedOrMalformed(out) ==
    \/ out.status \in {"nonzero", "oserror"}
    \/ out.status = "ok" /\ out.kind # "list"

\* C1: wg-quick down is run only after at least one poll, with every poll
\* of the run reporting no running job, and with the elapsed time at the
\* end of the loop at least the timeout - for every --timeout and
\* --interval, zero and negative ones included.
C1_DownOnlyAfterQuietWindow ==
    Deactivations > 0 =>
        /\ Polls >= 1
        /\ \A i \in 1..Len(sPolls) : Reported(sPolls[i], 0)
        /\ now >= args.timeout * TicksPerSecond

\* C2: a poll that reports a running job is the last thing the run does:
\* it is poll k after k - 1 polls and k - 1 sleeps, the run is over with
\* KeptUp and status 0, the interface was probed once and never brought down.
C2_ActivityEndsRun ==
    \A k \in 1..Len(sPolls) :
        ReportedActivity(sPolls[k]) =>
            /\ Len(sPolls) = k
            /\ Polls = k
            /\ Sleeps = k - 1
            /\ Last(sCalls) = "poll"
            /\ StopProbes = 1
            /\ Deactivations = 0
            /\ sPc = "Done"
            /\ sDecision = "KeptUp"
            /\ sExit = ExitSuccess

C2_Witness ==
    /\ Len(sPolls) >= 2
    /\ ReportedActivity(Last(sPolls))
    /\ \A i \in 1..(Len(sPolls) - 1) : Reported(sPolls[i], 0)

\* C3: once the re-check after a quiet grace window finds the interface
\* still up, wg-quick down is run exactly once - it is the next step, and
\* the run is over after it - and a successful call ends the run TornDown
\* with status 0.
C3_DownExactlyOnce ==
    /\ Deactivations <= 1
    /\ (StopProbes = 2 /\ sProbe = "active") =>
          \/ sPc = "BringDown" /\ Deactivations = 0
          \/ /\ sPc = "Done"
             /\ Deactivations = 1
             /\ Last(sCalls) = "deactivate"
             /\ sActuator = "ok" =>
                   sDecision = "TornDown" /\ sExit = ExitSuccess

C3_Witness ==
    /\ StopProbes = 2
    /\ sProbe = "active"
    /\ Polls >= 2
    /\ \A i \in 1..Len(sPolls) : Reported(sPolls[i], 0)
    /\ sActuator = "ok"
    /\ sDecision = "TornDown"

\* C4: a failed query or malformed query output ends the run with a
\* non-zero status, without the re-check of the interface and without
\* wg-quick down; it is never taken for "no running job".
C4_QueryFailureIsFatal ==
    \A i \in 1..Len(sPolls) :
        QueryFailedOrMalformed(sPolls[i]) =>
            /\ Len(sPolls) = i
            /\ sPc = "Done"
            /\ sExit \notin {NotExited, ExitSuccess}
            /\ StopProbes = 1
            /\ Deactivations = 0

\* C5: when the first check finds the interface down the run is over at
\* once: AlreadyDown, status 0, no query, no sleep, no wg-quick down.
C5_AlreadyDownEndsRun ==
    (StopProbes = 1 /\ sProbe = "inactive") =>
        /\ sPc = "Done"
        /\ sDecision = "AlreadyDown"
        /\ sExit = ExitSuccess
        /\ sCalls = <<"probe">>
        /\ sPolls = <<>>

C5_Witness ==
    /\ sCalls = <<"probe">>
    /\ sProbe = "inactive"
    /\ sDecision = "AlreadyDown"
    /\ args.timeout > 0
    /\ args.interval > 0

\* C6: when interface_exists answers True, wg-quick up is never run and
\* the run ends AlreadyUp at the DONE banner with status 0.
C6_AlreadyUpNoActivate ==
    aProbe = "active" =>
        /\ Activations = 0
        /\ aCalls = <<"probe">>
        /\ aPc = "Done"
        /\ aDecision = "AlreadyUp"
        /\ aExit = ExitSuccess

C6_Witness == aProbe = "active" /\ aPc = "Done"

\* C7: when a sleep of the polling loop ends, the time elapsed since
\* start_time is at most the timeout.
C7_NoOvershoot ==
    (sPc = "LoopGuard" /\ Sleeps > 0) =>
        now <= args.timeout * TicksPerSecond

\* C8: a KeyboardInterrupt that arrives during a query or during a sleep
\* ends the run with status 0 and without a decision: no re-check of the
\* interface, no wg-quick down.
C8_InterruptNoDecision ==
    sInterrupt \in {"poll", "sleep"} =>
        /\ sPc = "Done"
        /\ sExit = ExitSuccess
        /\ sDecision = "None"
        /\ Last(sCalls) = sInterrupt
        /\ StopProbes = 1
        /\ Deactivations = 0

C8_Witness ==
    /\ sInterrupt = "sleep"
    /\ Polls >= 2
    /\ sPc = "Done"

\* C9: a run that ended with a decision has status 0 exactly for
\* AlreadyDown, KeptUp and TornDown, and status 1 exactly when wg-quick
\* down was run and failed; a failed wg-quick down never gives status 0.
C9_StopExitCodes ==
    /\ (sPc = "Done" /\ sDecision # "None") =>
          /\ sExit \in {ExitSuccess, ExitFailure}
          /\ sExit = ExitSuccess <=>
                sDecision \in {"AlreadyDown", "KeptUp", "TornDown"}
          /\ sExit = ExitFailure <=>
                (Deactivations = 1 /\ sActuator = "nonzero")
          /\ sDecision = "DeactivationFailed" <=> sActuator = "nonzero"
    /\ sActuator \in {"nonzero", "oserror"} =>
          sPc = "Done" /\ sExit = ExitFailure

C9_Witness ==
    /\ sPc = "Done"
    /\ sDecision = "DeactivationFailed"
    /\ sActuator = "nonzero"
    /\ sExit = ExitFailure

\* C10: a run of start_wireguard.py that was given a tunnel reference ends
\* with status 0 exactly for AlreadyUp and Activated, and with status 1
\* exactly when the config file is missing or wg-quick up was run and
\* failed; the DONE banner is never reached after a failed wg-quick up.
C10_StartExitCodes ==
    /\ (aPc \in {"Done", "Failed"} /\ ~NoTunnelRef(args)) =>
          /\ aExit \in {ExitSuccess, ExitFailure}
          /\ aExit = ExitSuccess <=> aDecision \in {"AlreadyUp", "Activated"}
          /\ aExit = ExitFailure <=>
                \/ ~configOnDisk
                \/ Activations = 1 /\ aActuator \in {"nonzero", "oserror"}
    /\ aActuator \in {"nonzero", "oserror"} => aPc = "Failed"

\* C11: in both controllers a missing tunnel reference or a missing
\* configuration file ends the run with a non-zero status before any
\* probe, query or wg-quick call.
C11_ConfigErrorBeforeAnyCall ==
    (NoTunnelRef(args) \/ ~configOnDisk) =>
        /\ sCalls = <<>>
        /\ aCalls = <<>>
        /\ sPc \in {"Args", "Done"}
        /\ aPc \in {"Args", "Failed"}
        /\ sPc = "Done" => sExit \notin {NotExited, ExitSuccess}
        /\ aPc = "Failed" => aExit \notin {NotExited, ExitSuccess}

\* C12: in both controllers every wg-quick call comes right after a check
\* of the interface made by the same run, with no query or sleep between
\* them, and that check had answered the opposite of the state wanted.
C12_ActuatorGuardedByProbe ==
    /\ \A i \in 1..Len(sCalls) :
          sCalls[i] = "deactivate" =>
              i > 1 /\ sCalls[i - 1] = "probe" /\ sProbe = "active"
    /\ \A i \in 1..Len(aCalls) :
          aCalls[i] = "activate" =>
              i > 1 /\ aCalls[i - 1] = "probe" /\ aProbe = "inactive"

C12_Witness ==
    /\ Deactivations = 1
    /\ Activations = 1
    /\ Polls >= 1

\* C13: a run makes at most one wg-quick call; the call is the last
\* interaction of the run, which is over after it, also when it failed.
C13_OneFinalActuatorCall ==
    /\ Deactivations <= 1
    /\ Activations <= 1
    /\ Deactivations = 1 => Last(sCalls) = "deactivate" /\ sPc = "Done"
    /\ Activations = 1 =>
          Last(aCalls) = "activate" /\ aPc \in {"Done", "Failed"}

C13_Witness ==
    /\ sPc = "Done"
    /\ sActuator = "nonzero"
    /\ aPc = "Failed"
    /\ aActuator = "nonzero"

\* The smallest n with n * b >= a, for b > 0.
CeilDiv(a, b) == (a + b - 1) \div b

\* Positive timeout and interval, and every query so far answered with an
\* empty list.
QuietRun ==
    /\ args.timeout > 0
    /\ args.interval > 0
    /\ \A i \in 1..Len(sPolls) : Reported(sPolls[i], 0)

\* The polling loop is over and the run went on to the second check.
LoopLeft ==
    \/ sPc \in {"Deciding", "BringDown"}
    \/ sPc = "Done" /\ StopProbes = 2

\* C14: with the interface up and every query answered with an empty list,
\* for timeout T > 0 and interval I > 0 the loop makes at most ceil(T / I)
\* polls, and exactly ceil(T / I) when the queries take no time (12 for
\* T = 60, I = 5); after the last poll wg-quick down is run once and its
\* success ends the run with status 0.
C14_PollCount ==
    QuietRun =>
        /\ Polls <= CeilDiv(args.timeout, args.interval)
        /\ (LoopLeft /\ callTicks = 0) =>
              Polls = CeilDiv(args.timeout, args.interval)
        /\ (LoopLeft /\ sProbe = "active" /\ sActuator = "ok") =>
              /\ Deactivations = 1
              /\ Last(sCalls) = "deactivate"
              /\ sDecision = "TornDown"
              /\ sExit = ExitSuccess

C14_Witness ==
    /\ QuietRun
    /\ callTicks = 0
    /\ args.timeout = DefaultTimeout
    /\ args.interval = DefaultInterval
    /\ Polls = CeilDiv(args.timeout, args.interval)
    /\ Polls = 12
    /\ sActuator = "ok"
    /\ sExit = ExitSuccess

\* C15: the probe step of start_wireguard.py, taken while the interface
\* really exists, ends the run AlreadyUp with status 0, without wg-quick up
\* and with the interface still up.
C15_IdempotentOnRealState ==
    [][(aPc = "CheckingActive" /\ aPc' # "CheckingActive" /\ tunnelUp) =>
          /\ aPc' = "Done"
          /\ aDecision' = "AlreadyUp"
          /\ aExit' = ExitSuccess
          /\ aCalls' = <<"probe">>
          /\ tunnelUp']_vars

\* C16: a command line with both --interface and --config is rejected
\* before any call; with exactly one of them the name the interface is
\* checked by is the stem of the path handed to wg-quick.
C16_ExactlyOneReference ==
    /\ (args.interface # NoInterface /\ args.config # NoPath) =>
          /\ sCalls = <<>>
          /\ aCalls = <<>>
          /\ sPc = "Done" => sError = "ConfigurationError"
          /\ aPc # "Args" => aError = "ConfigurationError"
    /\ ((args.interface # NoInterface) # (args.config # NoPath)) =>
          ProbeName(args) = ActuatorConfig(args).stem

\* C17: when the check after the grace window finds the interface down,
\* wg-quick down is not run and the run ends AlreadyDown with status 0.
C17_ReprobeDownNoActuator ==
    (StopProbes = 2 /\ sProbe = "inactive") =>
        /\ sPc = "Done"
        /\ Last(sCalls) = "probe"
        /\ Deactivations = 0
        /\ sDecision = "AlreadyDown"
        /\ sExit = ExitSuccess

C17_Witness ==
    /\ StopProbes = 2
    /\ sProbe = "inactive"
    /\ Polls >= 1
    /\ \A i \in 1..Len(sPolls) : Reported(sPolls[i], 0)
    /\ ~tunnelUp

\* C18: the interface check of both controllers never ends in an error -
\* whatever goes wrong with `wg show` it answers "not active" - and a
\* failing first check of stop_wireguard.py gives AlreadyDown, status 0.
C18_ProbeTwoValued ==
    /\ sProbe = "raised" => sInterrupt = "probe"
    /\ aProbe # "raised"
    /\ (StopProbes = 1 /\ sProbe \notin {"none", "active"}) =>
          sPc = "Done" /\ sDecision = "AlreadyDown" /\ sExit = ExitSuccess

\* C20: wg-quick down is never run while a replication job is RUNNING.
C20_NoTeardownWhileRunning ==
    [][(sPc = "BringDown" /\ sPc' # "BringDown") => running = 0]_vars

\* C20, as amended: wg-quick down is run only in a run in which every
\* query was answered and none of the answers held a job.
C20_NoTeardownAfterReportedJob ==
    Deactivations > 0 =>
        \A i \in 1..Len(sPolls) :
            sPolls[i].status = "ok" /\ sPolls[i].size = 0

C20_Witness ==
    /\ Deactivations = 1
    /\ sActuator = "ok"
    /\ Polls >= 2
    /\ \A i \in 1..Len(sPolls) : Reported(sPolls[i], 0)
    /\ running > 0

\* C19: check-then-act narrows the race between overlapping runs but does
\* not close it. Narrowed: wg-quick down is about to run on an interface
\* that is down only if another run took it down after this run's check.
\* Not closed: a wg-quick down that runs right after the other run took
\* the interface down fails, and the run ends with status 1.
C19_RaceNarrowedNotClosed ==
    /\ (sPc = "BringDown" /\ ~tunnelUp) => pDownAt = Len(sCalls)
    /\ ( /\ Deactivations = 1
         /\ pDownAt = Len(sCalls) - 1
         /\ aActuator # "ok"
         /\ sInterrupt # "deactivate" ) =>
          /\ sPc = "Done"
          /\ sActuator \in {"nonzero", "oserror"}
          /\ sExit = ExitFailure

C19_Witness ==
    /\ Deactivations = 1
    /\ pDownAt = Len(sCalls) - 1
    /\ aActuator # "ok"
    /\ sActuator = "nonzero"
    /\ sDecision = "DeactivationFailed"
    /\ sExit = ExitFailure

Max(a, b) == IF a >= b THEN a ELSE b

\* The decisions a run of stop_wireguard.py can end with.
StopDecisions == {"AlreadyDown", "KeptUp", "TornDown", "DeactivationFailed"}

\* Every sleep the loop asks for is of at least one second and of at most
\* the seconds left of the timeout; the loop makes at most max(timeout, 1)
\* polls; a run that ended with neither a usage error nor an exception or
\* an interrupt ended with a decision.
BoundedLoop ==
    /\ sPc = "Sleep" =>
          /\ sleepFor >= 1
          /\ sleepFor <= args.timeout - IntSeconds(now)
    /\ Polls <= Max(args.timeout, 1)
    /\ Sleeps <= Polls
    /\ (sPc = "Done" /\ sError = "None") => sDecision \in StopDecisions

\* C21: for every integer --timeout and --interval, as long as the calls
\* of the run come back, every iteration of the polling loop ends the run,
\* leaves the loop, or sleeps at least one second of the time left; the
\* loop makes at most max(timeout, 1) polls and the run always ends.
C21_AlwaysTerminates == []BoundedLoop /\ <>(sPc = "Done")

C21_Witness ==
    /\ sPc = "Done"
    /\ args.timeout = MaxTimeout
    /\ args.interval = 1
    /\ Polls = Max(args.timeout, 1)
    /\ Sleeps = Polls
    /\ sDecision = "TornDown"

\* Every enabled task is FINISHED without error and last ran within the
\* window; there may be no enabled task at all.
AllCurrent(tasks, window) ==
    \A i \in 1..Len(tasks) :
        tasks[i].enabled =>
            /\ tasks[i].state = "FINISHED"
            /\ tasks[i].error = None
            /\ tasks[i].last_datetime # NoDatetime
            /\ HealthNow * MillisPerSecond - tasks[i].last_datetime
                   <= window * HourSeconds * MillisPerSecond

\* C22: for every list of tasks the query returned - tasks that never ran
\* among them - the run of check_replication.py sends exactly one
\* notification and exits: "up" and status 0 when every enabled task is
\* FINISHED without error and within the window, or none is enabled;
\* "down" and status 1 otherwise.
C22_OnePingPerRun ==
    (hPc = "Done" /\ ~get_replication_tasks_raises(hRaw)) =>
        /\ Len(hPings) = 1
        /\ AllCurrent(hTasks, hWindow) =>
              hPings = <<"up">> /\ hExit = ExitSuccess
        /\ ~AllCurrent(hTasks, hWindow) =>
              hPings = <<"down">> /\ hExit = ExitFailure

Cleanups == Count(eCalls, "cleanup")

\* C23: cleanup_old_exports runs only after the new archive was written;
\* when writing it fails, every export that was there is still there and
\* the status is 1; the files cleanup unlinks match this host's pattern
\* config-export-<hostname>-*.tar and are older than the cutoff, and no
\* other file of the destination disappears.
C23_CleanupOnlyAfterWrite ==
    /\ Cleanups > 0 => eWrite = "ok" /\ eCalls = <<"write", "cleanup">>
    /\ eWrite \in {"open failed", "add failed"} =>
          /\ ePc = "Done"
          /\ eExit = ExitFailure
          /\ eBefore \subseteq eFiles
          /\ eDeleted = {}
    /\ \A f \in eDeleted :
          /\ GlobMatches(f.name, Hostname)
          /\ f.mtime < eNow - eArgs.retention * DaySeconds
          /\ f \notin eFiles
    /\ \A f \in eBefore : f \in eFiles \/ f \in eDeleted

C23_Witness ==
    /\ eWrite = "add failed"
    /\ eExit = ExitFailure
    /\ \E f \in eBefore :
          /\ GlobMatches(f.name, Hostname)
          /\ f.mtime < eNow - eArgs.retention * DaySeconds
          /\ f \in eFiles

====
